---- MODULE Spec2Model ----
(***************************************************************************)
(* Bluevision backend: the /convert pipeline of backend/main.py, the wall  *)
(* and opening extraction of backend/feature_extraction.py and the mesh    *)
(* synthesis of backend/geometry_engine.py.                                *)
(*                                                                         *)
(* Lengths.  Pixel coordinates in the image plane are integers.  Heights   *)
(* are kept in tenths of a metre (Unit tenths per metre), so the module    *)
(* constants 0.2, 2.1, 1.2 and 0.9 m are 2, 21, 12 and 9; a pixel-space    *)
(* height is (tenths of a metre) * scale_factor.  Arithmetic is exact      *)
(* (rational), not IEEE double.                                            *)
(*                                                                         *)
(* Libraries.  cv2, shapely and trimesh are not part of the repository.    *)
(* What they return is part of the input (the contours of an image, the    *)
(* template match locations) or a choice among the outcomes the call can   *)
(* have (an extrusion or a boolean difference raising, the validity of a   *)
(* difference result, the export of an empty mesh).                        *)
(***************************************************************************)
EXTENDS Integers, Sequences, FiniteSets, TLC

VARIABLES
    now,                 \* time.time(), whole seconds
    templates,           \* door_template.png / window_template.png on disk
    models,              \* MODELS_DIR: output path -> id of the request that wrote it last
    served,              \* completed requests: what each was answered and where it wrote
    pc,                  \* position of the request being handled
    req,                 \* the request: id, filename, wall_height, wall_thickness, image
    output_model_path,   \* main.py:107
    wall_polygons,       \* main.py:114
    door_polygons,       \* main.py:126
    window_polygons,     \* main.py:132
    scale_factor,        \* geometry_engine.py:21-27
    all_wall_meshes,     \* geometry_engine.py:38
    final_wall_mesh,     \* geometry_engine.py:58
    all_opening_meshes,  \* geometry_engine.py:61
    final_model,         \* geometry_engine.py:102-111, main.py:136
    logs,                \* the lines the request printed, as tags, in order
    response             \* the JSONResponse of the request

vars == << now, templates, models, served, pc, req, output_model_path,
           wall_polygons, door_polygons, window_polygons, scale_factor,
           all_wall_meshes, final_wall_mesh, all_opening_meshes, final_model,
           logs, response >>

(***************************************************************************)
(* Bounds of the model.                                                    *)
(***************************************************************************)
MaxDim == 24          \* image widths and heights 1..MaxDim (extraction alone)
MaxThickness == 6     \* wall_thickness_pixels -1..MaxThickness (build alone)
MaxTime == 1          \* the clock runs 0..MaxTime
MaxRequests == 2      \* requests served one after the other

(***************************************************************************)
(* Program constants.                                                      *)
(***************************************************************************)
Unit == 10                                  \* tenths per metre
REAL_WORLD_WALL_THICKNESS_METERS == 2       \* 0.2 m
REAL_WORLD_DOOR_HEIGHT_METERS == 21         \* 2.1 m
REAL_WORLD_WINDOW_HEIGHT_METERS == 12       \* 1.2 m
REAL_WORLD_WINDOW_SILL_HEIGHT_METERS == 9   \* 0.9 m
MIN_AREA == 150                             \* min_area default
INSET == 10                                 \* inset of the fallback box

Min(a, b) == IF a <= b THEN a ELSE b
Abs(a) == IF a < 0 THEN 0 - a ELSE a

(***************************************************************************)
(* Planar geometry: shapely.geometry.Polygon over a ring of integer points *)
(***************************************************************************)
\* The corner order both callers use: (x0,y0), (x1,y0), (x1,y1), (x0,y1).
RectRing(x0, y0, x1, y1) ==
    << <<x0, y0>>, <<x1, y0>>, <<x1, y1>>, <<x0, y1>> >>

Polygon(points) == [pts |-> points]

RECURSIVE ShoelaceFrom(_, _)
ShoelaceFrom(pts, i) ==
    IF i > Len(pts) THEN 0
    ELSE LET p == pts[i]
             q == pts[IF i = Len(pts) THEN 1 ELSE i + 1]
         IN  p[1] * q[2] - q[1] * p[2] + ShoelaceFrom(pts, i + 1)

\* Twice the signed area of the ring.
Shoelace2(pts) == IF Len(pts) = 0 THEN 0 ELSE ShoelaceFrom(pts, 1)

\* cv2.contourArea(contour) < min_area, on twice the areas.
ContourAreaBelow(pts, min_area) == Abs(Shoelace2(pts)) < 2 * min_area

IsEmpty(poly) == Len(poly.pts) = 0

SimpleRing(pts) ==
    /\ Len(pts) >= 3
    /\ \A i, j \in 1..Len(pts) : i # j => pts[i] # pts[j]
    /\ Shoelace2(pts) # 0

\* polygon.is_valid for the rings of this model (rectilinear rings that may
\* touch themselves at a vertex): the empty geometry is valid; a ring is valid
\* when it visits no point twice and encloses area.
IsValid(poly) == IsEmpty(poly) \/ SimpleRing(poly.pts)

\* The first pair i < j of positions holding the same point, or <<0, 0>>.
FirstRepeat(pts) ==
    LET pairs == { ij \in (1..Len(pts)) \X (1..Len(pts)) :
                     ij[1] < ij[2] /\ pts[ij[1]] = pts[ij[2]] }
    IN  IF pairs = {} THEN <<0, 0>>
        ELSE CHOOSE ij \in pairs :
                 \A kl \in pairs : ij[1] < kl[1] \/ (ij[1] = kl[1] /\ ij[2] <= kl[2])

RECURSIVE SplitRing(_)
\* polygon.buffer(0): a ring touching itself at a vertex falls apart there; the
\* parts that enclose area are the geometries of the result (none: empty).
SplitRing(pts) ==
    LET ij == FirstRepeat(pts)
    IN  IF ij = <<0, 0>>
        THEN IF SimpleRing(pts) THEN << Polygon(pts) >> ELSE << >>
        ELSE SplitRing(SubSeq(pts, ij[1], ij[2] - 1))
             \o SplitRing(SubSeq(pts, 1, ij[1] - 1) \o SubSeq(pts, ij[2], Len(pts)))

Buffer0(poly) == SplitRing(poly.pts)

(***************************************************************************)
(* feature_extraction.extract_polygons_from_image                          *)
(***************************************************************************)
RECURSIVE AcceptContours(_, _, _)
\* The loop over the contours (lines 70-97), from contour i on.
AcceptContours(contours, min_area, i) ==
    IF i > Len(contours) THEN << >>
    ELSE LET points == contours[i]
             polygon == Polygon(points)
             rest == AcceptContours(contours, min_area, i + 1)
         IN  IF ContourAreaBelow(points, min_area) THEN rest
             ELSE IF Len(points) < 3 THEN rest
             ELSE IF IsValid(polygon) /\ ~IsEmpty(polygon) THEN << polygon >> \o rest
             ELSE IF ~IsValid(polygon)
                  THEN LET fixed == Buffer0(polygon)
                       IN  IF fixed # << >> THEN fixed \o rest ELSE rest
             ELSE rest

SafeInsetNoMargin(h_img, w_img) == Min(INSET, Min(h_img \div 2, w_img \div 2))

\* line 105
SafeInset(h_img, w_img) == Min(INSET, Min(h_img \div 2 - 1, w_img \div 2 - 1))

\* lines 102-113: the fallback bounding box, a list of one polygon or none
FallbackPolygons(h_img, w_img) ==
    LET safe_inset == SafeInset(h_img, w_img)
        fallback_poly == Polygon(RectRing(safe_inset, safe_inset,
                                          w_img - safe_inset, h_img - safe_inset))
    IN  IF IsValid(fallback_poly) THEN << fallback_poly >> ELSE << >>

\* The tags of the lines the extraction prints that tell its paths apart.
ExtractLogs(image, cvRaises) ==
    IF ~image.readable THEN << "ERROR_could_not_read_image" >>
    ELSE IF cvRaises THEN << "ERROR_unexpected_error" >>
    ELSE IF AcceptContours(image.contours, MIN_AREA, 1) = << >>
         THEN IF FallbackPolygons(image.h, image.w) # << >>
              THEN << "WARN_fallback_bounding_box", "INFO_returning_fallback" >>
              ELSE << "WARN_fallback_bounding_box", "ERROR_no_fallback" >>
    ELSE << >>

\* The whole function; cvRaises: a cv2 call inside the try raised.
ExtractPolygons(image, cvRaises) ==
    IF ~image.readable THEN << >>
    ELSE IF cvRaises THEN << >>
    ELSE LET found == AcceptContours(image.contours, MIN_AREA, 1)
         IN  IF found = << >> THEN FallbackPolygons(image.h, image.w) ELSE found

(***************************************************************************)
(* feature_extraction.find_features                                        *)
(***************************************************************************)
\* cv2.matchTemplate raises when the template is larger than the image.
TemplateFits(image, template) == template.w <= image.w /\ template.h <= image.h

RECURSIVE FeaturePolygons(_, _, _, _)
\* lines 144-151: one template-sized rectangle per match location
FeaturePolygons(loc, w, h, i) ==
    IF i > Len(loc) THEN << >>
    ELSE LET pt == loc[i]
             poly == Polygon(RectRing(pt[1], pt[2], pt[1] + w, pt[2] + h))
             rest == FeaturePolygons(loc, w, h, i + 1)
         IN  IF IsValid(poly) /\ ~IsEmpty(poly) THEN << poly >> \o rest ELSE rest

\* The whole function; loc: where cv2.matchTemplate scored at or above the
\* threshold, in np.where order.
FindFeatures(image, template, loc) ==
    IF ~image.readable THEN << >>                      \* line 137
    ELSE IF ~template.readable THEN << >>              \* line 138
    ELSE IF ~TemplateFits(image, template) THEN << >>  \* lines 141, 156-158
    ELSE FeaturePolygons(loc, template.w, template.h, 1)

FindFeaturesLogs(image, template) ==
    IF ~image.readable THEN << "ERROR_could_not_read_main_image" >>
    ELSE IF ~template.readable THEN << "ERROR_could_not_read_template_image" >>
    ELSE IF ~TemplateFits(image, template) THEN << "ERROR_during_template_matching" >>
    ELSE << "INFO_found_matches" >>

(***************************************************************************)
(* trimesh: a mesh is the solid (union of its prisms) minus (union of its  *)
(* cuts), its coordinates multiplied by num / den.  A prism is a ring      *)
(* extruded from z0 to z1.                                                 *)
(***************************************************************************)
Prism(ring, z0, z1) == [ring |-> ring, z0 |-> z0, z1 |-> z1]

\* trimesh.Trimesh()
EmptyTrimesh == [solids |-> {}, cuts |-> {}, num |-> 1, den |-> 1, watertight |-> FALSE]

\* trimesh.creation.extrude_polygon(polygon, height)
ExtrudePolygon(polygon, height) ==
    [solids |-> { Prism(polygon.pts, 0, height) }, cuts |-> {},
     num |-> 1, den |-> 1, watertight |-> TRUE]

NoTranslation(mesh, dz) == mesh

\* mesh.apply_translation([0, 0, dz])
ApplyTranslation(mesh, dz) ==
    [mesh EXCEPT !.solids = { Prism(p.ring, p.z0 + dz, p.z1 + dz) : p \in mesh.solids },
                 !.cuts = { Prism(p.ring, p.z0 + dz, p.z1 + dz) : p \in mesh.cuts }]

RECURSIVE ConcatenateFrom(_, _)
ConcatenateFrom(meshes, i) ==
    IF i > Len(meshes) THEN EmptyTrimesh
    ELSE LET rest == ConcatenateFrom(meshes, i + 1)
         IN  [solids |-> meshes[i].solids \cup rest.solids,
              cuts |-> meshes[i].cuts \cup rest.cuts,
              num |-> meshes[i].num, den |-> meshes[i].den,
              watertight |-> meshes[i].watertight /\ (i = Len(meshes) \/ rest.watertight)]

\* trimesh.util.concatenate(meshes)
Concatenate(meshes) == ConcatenateFrom(meshes, 1)

\* a.difference(b) when the engine returns; whether the result is a closed
\* volume is the engine's.
Difference(a, b, closed) ==
    [solids |-> a.solids, cuts |-> a.cuts \cup b.solids,
     num |-> a.num, den |-> a.den, watertight |-> closed]

ApplyScaleTwice(mesh, n, d) == [mesh EXCEPT !.num = @ * n * n, !.den = @ * d * d]

\* mesh.apply_scale(n / d)
ApplyScale(mesh, n, d) == [mesh EXCEPT !.num = @ * n, !.den = @ * d]

Xs(ring) == { ring[i][1] : i \in 1..Len(ring) }
Ys(ring) == { ring[i][2] : i \in 1..Len(ring) }
Lowest(S) == CHOOSE a \in S : \A b \in S : a <= b
Highest(S) == CHOOSE a \in S : \A b \in S : a >= b

\* The point <<x, y, z>> is the low corner of a cell inside the prism.
InPrism(p, x, y, z) ==
    /\ Lowest(Xs(p.ring)) <= x /\ x < Highest(Xs(p.ring))
    /\ Lowest(Ys(p.ring)) <= y /\ y < Highest(Ys(p.ring))
    /\ p.z0 <= z /\ z < p.z1

\* mesh.is_empty: nothing of the solids is left outside the cuts.  A part
\* left over has a lowest corner, whose every coordinate is a low coordinate
\* of its solid or a high coordinate of a cut.
MeshIsEmpty(mesh) ==
    \A s \in mesh.solids :
        \A x \in { Lowest(Xs(s.ring)) } \cup { Highest(Xs(c.ring)) : c \in mesh.cuts } :
        \A y \in { Lowest(Ys(s.ring)) } \cup { Highest(Ys(c.ring)) : c \in mesh.cuts } :
        \A z \in { s.z0 } \cup { c.z1 : c \in mesh.cuts } :
            InPrism(s, x, y, z) => \E c \in mesh.cuts : InPrism(c, x, y, z)

(***************************************************************************)
(* geometry_engine.build_3d_model, step by step                            *)
(***************************************************************************)
ScaleFactorUnguarded(wall_thickness_pixels) ==
    (wall_thickness_pixels * Unit) \div REAL_WORLD_WALL_THICKNESS_METERS

\* lines 21-27: pixels per metre
ScaleFactor(wall_thickness_pixels) ==
    IF wall_thickness_pixels > 0
    THEN (wall_thickness_pixels * Unit) \div REAL_WORLD_WALL_THICKNESS_METERS
    ELSE 1

ScaleLogs(wall_thickness_pixels) ==
    IF wall_thickness_pixels > 0 THEN << "Calculated_scale" >>
    ELSE << "Warning_wall_thickness_is_0" >>

\* lines 30-34: pixel-space heights, in tenths of a pixel
ExtrusionHeightPixels(wall_height, sf) == wall_height * sf
DoorHeightPixels(sf) == REAL_WORLD_DOOR_HEIGHT_METERS * sf
WindowHeightPixels(sf) == REAL_WORLD_WINDOW_HEIGHT_METERS * sf
WindowSillPixels(sf) == REAL_WORLD_WINDOW_SILL_HEIGHT_METERS * sf

RECURSIVE WallMeshesAbortOnRaise(_, _, _, _)
WallMeshesAbortOnRaise(polys, height, raises, i) ==
    IF i > Len(polys) THEN [meshes |-> << >>, logs |-> << >>]
    ELSE LET polygon == polys[i]
             rest == WallMeshesAbortOnRaise(polys, height, raises, i + 1)
         IN  IF IsValid(polygon) /\ ~IsEmpty(polygon)
             THEN IF i \in raises
                  THEN [meshes |-> << >>, logs |-> << "Warning_could_not_extrude_wall" >>]
                  ELSE [rest EXCEPT !.meshes = << ExtrudePolygon(polygon, height) >> \o @]
             ELSE [rest EXCEPT !.logs = << "Warning_skipping_wall" >> \o @]

RECURSIVE WallMeshes(_, _, _, _)
\* lines 38-52; raises: the polygons whose extrusion raises.  The result is
\* the meshes appended and the warnings printed.
WallMeshes(polys, height, raises, i) ==
    IF i > Len(polys) THEN [meshes |-> << >>, logs |-> << >>]
    ELSE LET polygon == polys[i]
             rest == WallMeshes(polys, height, raises, i + 1)
         IN  IF IsValid(polygon) /\ ~IsEmpty(polygon)
             THEN IF i \in raises
                  THEN [rest EXCEPT !.logs = << "Warning_could_not_extrude_wall" >> \o @]
                  ELSE [rest EXCEPT !.meshes = << ExtrudePolygon(polygon, height) >> \o @]
             ELSE [rest EXCEPT !.logs = << "Warning_skipping_wall" >> \o @]

RECURSIVE DoorMeshes(_, _, _, _)
\* lines 64-76
DoorMeshes(polys, height, raises, i) ==
    IF i > Len(polys) THEN [meshes |-> << >>, logs |-> << >>]
    ELSE LET door_poly == polys[i]
             rest == DoorMeshes(polys, height, raises, i + 1)
         IN  IF IsValid(door_poly) /\ ~IsEmpty(door_poly)
             THEN IF i \in raises
                  THEN [rest EXCEPT !.logs = << "Warning_could_not_extrude_door" >> \o @]
                  ELSE [rest EXCEPT !.meshes = << ExtrudePolygon(door_poly, height) >> \o @]
             ELSE [rest EXCEPT !.logs = << "Warning_skipping_door" >> \o @]

RECURSIVE WindowMeshes(_, _, _, _, _)
\* lines 79-93
WindowMeshes(polys, height, sill, raises, i) ==
    IF i > Len(polys) THEN [meshes |-> << >>, logs |-> << >>]
    ELSE LET window_poly == polys[i]
             rest == WindowMeshes(polys, height, sill, raises, i + 1)
         IN  IF IsValid(window_poly) /\ ~IsEmpty(window_poly)
             THEN IF i \in raises
                  THEN [rest EXCEPT !.logs = << "Warning_could_not_extrude_window" >> \o @]
                  ELSE [rest EXCEPT !.meshes =
                           << ApplyTranslation(ExtrudePolygon(window_poly, height), sill) >> \o @]
             ELSE [rest EXCEPT !.logs = << "Warning_skipping_window" >> \o @]

SubtractAlways(wall_mesh, opening_meshes, engine) ==
    LET diff == Difference(wall_mesh, Concatenate(opening_meshes), engine = "closed")
    IN  IF engine = "raises"
        THEN [model |-> wall_mesh,
              logs |-> << "Subtracting", "Warning_boolean_difference_failed" >>]
        ELSE IF MeshIsEmpty(diff)
        THEN [model |-> wall_mesh,
              logs |-> << "Subtracting", "Warning_boolean_difference_empty" >>]
        ELSE [model |-> diff, logs |-> << "Subtracting" >>]

\* lines 96-111; engine: what final_wall_mesh.difference does, "raises", or
\* returns a "closed" or an "open" (not watertight) mesh.  The result is
\* final_model and the lines printed.
SubtractOpenings(wall_mesh, opening_meshes, engine) ==
    IF opening_meshes # << >>
    THEN LET combined_openings_mesh == Concatenate(opening_meshes)
             diff == Difference(wall_mesh, combined_openings_mesh, engine = "closed")
         IN  IF engine = "raises"
             THEN [model |-> wall_mesh,
                   logs |-> << "Subtracting", "Warning_boolean_difference_failed" >>]
             ELSE IF MeshIsEmpty(diff)
             THEN [model |-> wall_mesh,
                   logs |-> << "Subtracting", "Warning_boolean_difference_empty" >>]
             ELSE [model |-> diff, logs |-> << "Subtracting" >>]
    ELSE [model |-> wall_mesh, logs |-> << >>]

\* lines 114-115
Rescale(model, sf) == IF sf > 0 THEN ApplyScale(model, 1, sf) ELSE model

(***************************************************************************)
(* main.convert_blueprint_to_3d                                            *)
(***************************************************************************)
\* A file name is its dot-separated parts; Path(name).stem drops the last
\* part when there is more than one.
Stem(filename) ==
    IF Len(filename) > 1 THEN SubSeq(filename, 1, Len(filename) - 1) ELSE filename

\* lines 102-107: MODELS_DIR / f"{stem}_{cache_buster}.obj"
OutputModelPath(filename, cache_buster) ==
    [dir |-> "models", stem |-> Stem(filename),
     cache_buster |-> cache_buster, suffix |-> "obj"]

NoPath == [dir |-> "", stem |-> << >>, cache_buster |-> 0, suffix |-> ""]

Response(status_code, success, message) ==
    [status_code |-> status_code, success |-> success, message |-> message]

NoResponse == Response(0, FALSE, "")

\* lines 153-169: the handler of an exception raised in the try block
ExceptionResponse(error_message) ==
    IF error_message = "No valid wall meshes could be created"
    THEN Response(400, FALSE, "blueprint_could_not_be_processed")
    ELSE Response(500, FALSE, "critical_server_error")

NoImage == [readable |-> FALSE, w |-> 0, h |-> 0, contours |-> << >>]
NoRequest ==
    [id |-> 0, filename |-> << >>, wall_height |-> 0, wall_thickness |-> 0,
     image |-> NoImage]

\* ---- the inputs the model draws from --------------------------------------
Speck == RectRing(1, 1, 6, 6)            \* area 25: scan noise
Room == RectRing(2, 2, 18, 14)           \* area 192: one closed loop
\* Two 10 x 10 squares meeting at the corner (12,12), traced as one contour.
Eight == << <<2, 2>>, <<12, 2>>, <<12, 12>>, <<22, 12>>,
            <<22, 22>>, <<12, 22>>, <<12, 12>>, <<2, 12>> >>

FitsIn(ring, w, h) ==
    \A i \in 1..Len(ring) : ring[i][1] < w /\ ring[i][2] < h

ContourLists == { << >>, << Speck >>, << Room >>, << Speck, Room >>, << Eight >> }

Image(w, h, contours) == [readable |-> TRUE, w |-> w, h |-> h, contours |-> contours]

\* Every image of 1..MaxDim by 1..MaxDim pixels with one of the contour lists
\* that fit in it, and the file that does not decode.
ExtractImages ==
    { NoImage } \cup
    { Image(w, h, cs) : <<w, h, cs>> \in
        { t \in (1..MaxDim) \X (1..MaxDim) \X ContourLists :
            \A i \in 1..Len(t[3]) : FitsIn(t[3][i], t[1], t[2]) } }

\* The uploads of the served requests.
Scenes ==
    { NoImage, Image(24, 24, << >>), Image(24, 24, << Speck, Room >>),
      Image(24, 24, << Eight >>) }

Filenames == { << "plan", "png" >>, << "plan", "jpg" >>, << "site", "png" >> }
WallHeights == { 20, 30 }                \* 2.0 m, 3.0 m
WallThicknesses == { 0, 5 }

Template(readable, w, h) == [readable |-> readable, w |-> w, h |-> h]
TemplateFiles == { Template(TRUE, 6, 6), Template(FALSE, 0, 0) }

\* Where a template may match: nowhere, or once, over the fallback box.
MatchLists(image, template) ==
    IF image.readable /\ template.readable /\ TemplateFits(image, template)
    THEN { loc \in { << >>, << <<9, 9>> >> } :
             \A i \in 1..Len(loc) : /\ loc[i][1] + template.w <= image.w
                                    /\ loc[i][2] + template.h <= image.h }
    ELSE { << >> }

\* ---- the state between requests -------------------------------------------
Locals0 ==
    /\ req = NoRequest
    /\ output_model_path = NoPath
    /\ wall_polygons = << >>
    /\ door_polygons = << >>
    /\ window_polygons = << >>
    /\ scale_factor = 0
    /\ all_wall_meshes = << >>
    /\ final_wall_mesh = EmptyTrimesh
    /\ all_opening_meshes = << >>
    /\ final_model = EmptyTrimesh
    /\ logs = << >>
    /\ response = NoResponse

Init ==
    /\ now = 0
    /\ templates \in [door : TemplateFiles, window : TemplateFiles]
    /\ models = [path \in {} |-> 0]
    /\ served = << >>
    /\ pc = "idle"
    /\ Locals0

globals == << now, templates, models, served >>
walls == << wall_polygons >>
openings == << door_polygons, window_polygons >>
build == << scale_factor, all_wall_meshes, final_wall_mesh, all_opening_meshes,
            final_model >>

\* time passes
Tick ==
    /\ now < MaxTime
    /\ now' = now + 1
    /\ UNCHANGED << templates, models, served, pc, req, output_model_path,
                    walls, openings, build, logs, response >>

\* lines 77-108: the upload is saved and the output path is named
Upload ==
    /\ pc = "idle"
    /\ Len(served) < MaxRequests
    /\ \E filename \in Filenames, wall_height \in WallHeights,
          wall_thickness \in WallThicknesses, image \in Scenes, saved \in BOOLEAN :
          /\ req' = [id |-> Len(served) + 1, filename |-> filename,
                     wall_height |-> wall_height, wall_thickness |-> wall_thickness,
                     image |-> IF saved THEN image ELSE NoImage]
          /\ IF saved
             THEN /\ logs' = << "Saved_file" >>
                  /\ output_model_path' = OutputModelPath(filename, now)
                  /\ response' = NoResponse
                  /\ pc' = "extract"
             ELSE /\ logs' = << "Could_not_save_file" >>
                  /\ output_model_path' = NoPath
                  /\ response' = Response(500, FALSE, "could_not_save_file")
                  /\ pc' = "done"
    /\ UNCHANGED << globals, walls, openings, build >>

NoWallFeaturesUnchecked(polygons) == FALSE

\* line 115: if not wall_polygons
NoWallFeatures(polygons) == polygons = << >>

\* lines 110-121: find walls, and stop when there are none
ExtractWalls ==
    /\ pc = "extract"
    /\ \E cvRaises \in BOOLEAN :
          /\ wall_polygons' = ExtractPolygons(req.image, cvRaises)
          /\ IF NoWallFeatures(wall_polygons')
             THEN /\ logs' = logs \o ExtractLogs(req.image, cvRaises)
                               \o << "ERROR_no_wall_features_detected" >>
                  /\ response' = Response(400, FALSE, "no_wall_features_detected")
                  /\ pc' = "done"
             ELSE /\ logs' = logs \o ExtractLogs(req.image, cvRaises)
                               \o << "INFO_found_wall_polygons" >>
                  /\ response' = response
                  /\ pc' = "doors"
    /\ UNCHANGED << globals, req, output_model_path, openings, build >>

\* lines 123-127
FindDoors ==
    /\ pc = "doors"
    /\ \E loc \in MatchLists(req.image, templates.door) :
          door_polygons' = FindFeatures(req.image, templates.door, loc)
    /\ logs' = logs \o << "find_features_door" >>
                    \o FindFeaturesLogs(req.image, templates.door)
    /\ pc' = "windows"
    /\ UNCHANGED << globals, req, output_model_path, walls, window_polygons, build,
                    response >>

\* lines 129-133
FindWindows ==
    /\ pc = "windows"
    /\ \E loc \in MatchLists(req.image, templates.window) :
          window_polygons' = FindFeatures(req.image, templates.window, loc)
    /\ logs' = logs \o << "find_features_window" >>
                    \o FindFeaturesLogs(req.image, templates.window)
    /\ pc' = "scale"
    /\ UNCHANGED << globals, req, output_model_path, walls, door_polygons, build,
                    response >>

\* geometry_engine.py lines 20-34
BuildScale ==
    /\ pc = "scale"
    /\ scale_factor' = ScaleFactor(req.wall_thickness)
    /\ logs' = logs \o << "build_3d_model" >> \o ScaleLogs(req.wall_thickness)
    /\ pc' = "walls"
    /\ UNCHANGED << globals, req, output_model_path, walls, openings,
                    all_wall_meshes, final_wall_mesh, all_opening_meshes, final_model,
                    response >>

\* geometry_engine.py lines 38-58
BuildWalls ==
    /\ pc = "walls"
    /\ \E raises \in SUBSET (1..Len(wall_polygons)) :
          LET r == WallMeshes(wall_polygons,
                              ExtrusionHeightPixels(req.wall_height, scale_factor),
                              raises, 1)
          IN  /\ all_wall_meshes' = r.meshes
              /\ IF r.meshes = << >>
                 THEN /\ logs' = logs \o r.logs \o << "ERROR_no_valid_wall_meshes_created" >>
                      /\ final_wall_mesh' = final_wall_mesh
                      /\ final_model' = EmptyTrimesh
                      /\ pc' = "export"
                 ELSE /\ logs' = logs \o r.logs
                      /\ final_wall_mesh' = Concatenate(r.meshes)
                      /\ final_model' = final_model
                      /\ pc' = "openings"
    /\ UNCHANGED << globals, req, output_model_path, walls, openings, scale_factor,
                    all_opening_meshes, response >>

\* geometry_engine.py lines 60-93
BuildOpenings ==
    /\ pc = "openings"
    /\ \E door_raises \in SUBSET (1..Len(door_polygons)),
          window_raises \in SUBSET (1..Len(window_polygons)) :
          LET d == DoorMeshes(door_polygons, DoorHeightPixels(scale_factor),
                              door_raises, 1)
              w == WindowMeshes(window_polygons, WindowHeightPixels(scale_factor),
                                WindowSillPixels(scale_factor), window_raises, 1)
          IN  /\ all_opening_meshes' = d.meshes \o w.meshes
              /\ logs' = logs \o d.logs \o w.logs
    /\ pc' = "subtract"
    /\ UNCHANGED << globals, req, output_model_path, walls, openings, scale_factor,
                    all_wall_meshes, final_wall_mesh, final_model, response >>

\* geometry_engine.py lines 96-111
BuildSubtract ==
    /\ pc = "subtract"
    /\ \E engine \in { "raises", "closed", "open" } :
          LET r == SubtractOpenings(final_wall_mesh, all_opening_meshes, engine)
          IN  /\ final_model' = r.model
              /\ logs' = logs \o r.logs
    /\ pc' = "rescale"
    /\ UNCHANGED << globals, req, output_model_path, walls, openings, scale_factor,
                    all_wall_meshes, final_wall_mesh, all_opening_meshes, response >>

\* geometry_engine.py lines 113-118
BuildRescale ==
    /\ pc = "rescale"
    /\ final_model' = Rescale(final_model, scale_factor)
    /\ logs' = logs \o << "Successfully_built_3D_model" >>
    /\ pc' = "export"
    /\ UNCHANGED << globals, req, output_model_path, walls, openings, scale_factor,
                    all_wall_meshes, final_wall_mesh, all_opening_meshes, response >>

\* main.py lines 144-169; exported: final_model.export returned, which the
\* export of a mesh without faces may not.
Export ==
    /\ pc = "export"
    /\ \E exported \in BOOLEAN :
          /\ exported \/ MeshIsEmpty(final_model)
          /\ IF exported
             THEN /\ models' = [path \in DOMAIN models \cup { output_model_path } |->
                                   IF path = output_model_path THEN req.id
                                   ELSE models[path]]
                  /\ logs' = logs \o << "export", "Conversion_successful" >>
                  /\ response' = Response(200, TRUE, "model_url")
             ELSE /\ models' = models
                  /\ logs' = logs \o << "export", "An_error_occurred_during_conversion" >>
                  /\ response' = ExceptionResponse("export of an empty mesh")
    /\ pc' = "done"
    /\ UNCHANGED << now, templates, served, req, output_model_path, walls, openings,
                    build >>

\* the response is sent; the next request may come
Respond ==
    /\ pc = "done"
    /\ served' = Append(served, [id |-> req.id, output_model_path |-> output_model_path,
                                 response |-> response])
    /\ pc' = "idle"
    /\ req' = NoRequest
    /\ output_model_path' = NoPath
    /\ wall_polygons' = << >>
    /\ door_polygons' = << >>
    /\ window_polygons' = << >>
    /\ scale_factor' = 0
    /\ all_wall_meshes' = << >>
    /\ final_wall_mesh' = EmptyTrimesh
    /\ all_opening_meshes' = << >>
    /\ final_model' = EmptyTrimesh
    /\ logs' = << >>
    /\ response' = NoResponse
    /\ UNCHANGED << now, templates, models >>

Next ==
    \/ Tick
    \/ Upload
    \/ ExtractWalls
    \/ FindDoors
    \/ FindWindows
    \/ BuildScale
    \/ BuildWalls
    \/ BuildOpenings
    \/ BuildSubtract
    \/ BuildRescale
    \/ Export
    \/ Respond

Spec == Init /\ [][Next]_vars

(***************************************************************************)
(* One request alone: what a request does never reads what an earlier one  *)
(* left, but for the files in MODELS_DIR.                                  *)
(***************************************************************************)
NextRequest ==
    \/ Upload
    \/ ExtractWalls
    \/ FindDoors
    \/ FindWindows
    \/ BuildScale
    \/ BuildWalls
    \/ BuildOpenings
    \/ BuildSubtract
    \/ BuildRescale
    \/ Export

SpecRequest == Init /\ [][NextRequest]_vars

(***************************************************************************)
(* extract_polygons_from_image alone, on every image of ExtractImages.     *)
(***************************************************************************)
InitExtract ==
    /\ now = 0
    /\ templates = [door |-> Template(TRUE, 6, 6), window |-> Template(TRUE, 6, 6)]
    /\ models = [path \in {} |-> 0]
    /\ served = << >>
    /\ pc = "extract"
    /\ \E image \in ExtractImages :
          req = [id |-> 1, filename |-> << "plan", "png" >>, wall_height |-> 30,
                 wall_thickness |-> 5, image |-> image]
    /\ output_model_path = OutputModelPath(<< "plan", "png" >>, 0)
    /\ wall_polygons = << >>
    /\ door_polygons = << >>
    /\ window_polygons = << >>
    /\ scale_factor = 0
    /\ all_wall_meshes = << >>
    /\ final_wall_mesh = EmptyTrimesh
    /\ all_opening_meshes = << >>
    /\ final_model = EmptyTrimesh
    /\ logs = << "Saved_file" >>
    /\ response = NoResponse

NextExtract == ExtractWalls

SpecExtract == InitExtract /\ [][NextExtract]_vars

(***************************************************************************)
(* build_3d_model alone, on the arguments of BuildInputs: polygon lists a  *)
(* caller may pass (valid, self-touching and empty polygons), every wall   *)
(* thickness of -1..MaxThickness pixels, wall heights below the window     *)
(* sill, below the door height and above it.                               *)
(***************************************************************************)
Box == Polygon(RectRing(10, 10, 14, 14))
Loop == Polygon(Room)
Bad == Polygon(Eight)
Nothing == Polygon(<< >>)
Opening(x, y) == Polygon(RectRing(x, y, x + 6, y + 6))

WallInputs == { << Box >>, << Loop, Box >>, << Bad >>, << Nothing, Loop >> }
DoorInputs == { << >>, << Opening(9, 9) >>, << Opening(0, 0), Opening(9, 9) >>, << Bad >> }
WindowInputs == { << >>, << Opening(9, 9) >>, << Nothing >>, << Nothing, Opening(9, 9) >> }
HeightInputs == { 5, 20, 30 }

InitBuild ==
    /\ now = 0
    /\ templates = [door |-> Template(TRUE, 6, 6), window |-> Template(TRUE, 6, 6)]
    /\ models = [path \in {} |-> 0]
    /\ served = << >>
    /\ pc = "scale"
    /\ \E wall_height \in HeightInputs, wall_thickness \in (-1)..MaxThickness :
          req = [id |-> 1, filename |-> << "plan", "png" >>, wall_height |-> wall_height,
                 wall_thickness |-> wall_thickness, image |-> Image(24, 24, << >>)]
    /\ output_model_path = OutputModelPath(<< "plan", "png" >>, 0)
    /\ wall_polygons \in WallInputs
    /\ door_polygons \in DoorInputs
    /\ window_polygons \in WindowInputs
    /\ scale_factor = 0
    /\ all_wall_meshes = << >>
    /\ final_wall_mesh = EmptyTrimesh
    /\ all_opening_meshes = << >>
    /\ final_model = EmptyTrimesh
    /\ logs = << >>
    /\ response = NoResponse

NextBuild ==
    \/ BuildScale
    \/ BuildWalls
    \/ BuildOpenings
    \/ BuildSubtract
    \/ BuildRescale

SpecBuild == InitBuild /\ [][NextBuild]_vars

(***************************************************************************)
(* Properties                                                              *)
(***************************************************************************)
Has(seq, tag) == \E i \in 1..Len(seq) : seq[i] = tag

\* The extraction ran on an upload that decoded, no cv2 call raised, and no
\* contour was accepted.
FallbackCase ==
    /\ pc \in { "doors", "done" }
    /\ Has(logs, "Saved_file")
    /\ req.image.readable
    /\ ~Has(logs, "ERROR_unexpected_error")
    /\ AcceptContours(req.image.contours, MIN_AREA, 1) = << >>

\* wall_polygons is the one rectangle (i,i), (w-i,i), (w-i,h-i), (i,h-i).
IsInsetBox(i) ==
    wall_polygons = << Polygon(<< <<i, i>>, <<req.image.w - i, i>>,
                                  <<req.image.w - i, req.image.h - i>>,
                                  <<i, req.image.h - i>> >>) >>

\* C1 as stated: when no contour is accepted, the extraction returns exactly
\* one polygon, the border rectangle inset by i, where i is 10 whenever the
\* image is at least 20 x 20 and is below 10 only when it is smaller.
C1_InsetTenFrom20 ==
    FallbackCase =>
        \E i \in (0 - INSET)..INSET :
            /\ IsInsetBox(i)
            /\ (req.image.w >= 20 /\ req.image.h >= 20) => i = 10
            /\ i < 10 => (req.image.w < 20 \/ req.image.h < 20)

\* C1 amended: when no contour is accepted, the extraction returns exactly
\* one polygon, the border rectangle inset by i, where i is 10 whenever the
\* image is at least 22 x 22 and is below 10 only when it is smaller than that.
C1_InsetTenFrom22 ==
    FallbackCase =>
        \E i \in (0 - INSET)..INSET :
            /\ IsInsetBox(i)
            /\ (req.image.w >= 22 /\ req.image.h >= 22) => i = 10
            /\ i < 10 => (req.image.w < 22 \/ req.image.h < 22)

\* A 21 x 24 image without contours came back as the box inset by 9.
C1_Witness ==
    /\ FallbackCase
    /\ req.image.w = 21 /\ req.image.h = 24
    /\ wall_polygons = << Polygon(RectRing(9, 9, 12, 15)) >>

\* C2: the fallback rectangle lies within the image, all its corners in
\* [0,w] x [0,h], and its width and height are strictly positive.
C2_FallbackWithinImage ==
    FallbackCase =>
        /\ Len(wall_polygons) = 1
        /\ \A k \in 1..Len(wall_polygons[1].pts) :
              /\ 0 <= wall_polygons[1].pts[k][1]
              /\ wall_polygons[1].pts[k][1] <= req.image.w
              /\ 0 <= wall_polygons[1].pts[k][2]
              /\ wall_polygons[1].pts[k][2] <= req.image.h
        /\ wall_polygons[1].pts[2][1] - wall_polygons[1].pts[1][1] > 0
        /\ wall_polygons[1].pts[3][2] - wall_polygons[1].pts[2][2] > 0

\* build_3d_model has computed its scale factor.
Scaled == pc \in { "walls", "openings", "subtract", "rescale", "export" }

\* C3: the scale factor is strictly positive for every wall_thickness_pixels:
\* wall_thickness_pixels / 0.2 when that is positive (25 for 5 pixels), and
\* exactly 1 when it is zero or negative, with which the build goes on.
C3_ScaleFactorPositive ==
    Scaled =>
        /\ scale_factor > 0
        /\ req.wall_thickness > 0 =>
              scale_factor * REAL_WORLD_WALL_THICKNESS_METERS = req.wall_thickness * Unit
        /\ req.wall_thickness = 5 => scale_factor = 25
        /\ req.wall_thickness <= 0 => scale_factor = 1

\* A wall thickness of 0 pixels gave the scale 1 and the build went on to
\* its walls.
C3_Witness ==
    /\ pc = "walls"
    /\ req.wall_thickness = 0
    /\ scale_factor = 1

\* build_3d_model has returned a mesh that is not empty.
Returned == pc = "export" /\ ~MeshIsEmpty(final_model)

\* C4: for wall_thickness_pixels > 0, on every path that returns a non-empty
\* mesh the coordinates were multiplied by 1/scale_factor exactly once, so
\* the walls of the returned model stand from 0 to wall_height metres.
C4_ScaleRoundTrip ==
    (Returned /\ req.wall_thickness > 0) =>
        /\ final_model.num = 1
        /\ final_model.den = scale_factor
        /\ \A s \in final_model.solids :
              /\ s.z0 = 0
              /\ s.z1 * final_model.num = req.wall_height * final_model.den

\* A 3.0 m wall at 5 pixels of thickness, with an opening subtracted, came
\* back 75.0 pixels high under the scale 1/25.
C4_Witness ==
    /\ Returned
    /\ req.wall_thickness = 5 /\ req.wall_height = 30
    /\ final_model.cuts # {}
    /\ final_model.den = 25
    /\ \E s \in final_model.solids : s.z1 = 750

\* The walls and the openings both gave meshes, and the subtraction is over.
Subtracted ==
    /\ pc \in { "rescale", "export" }
    /\ all_wall_meshes # << >>
    /\ all_opening_meshes # << >>

\* C5: with a wall solid and an opening solid, when the subtraction raises
\* or gives an empty or invalid result the model returned is the wall solid
\* as it was: the model returned is never empty and never invalid.
C5_NeverEmptyOrInvalid ==
    Subtracted =>
        /\ ~MeshIsEmpty(final_model)
        /\ final_model.watertight
        /\ (Has(logs, "Warning_boolean_difference_failed")
            \/ Has(logs, "Warning_boolean_difference_empty")) =>
               /\ final_model.solids = final_wall_mesh.solids
               /\ final_model.cuts = {}

\* C9: without an opening solid build_3d_model subtracts nothing, and the
\* model returned is the concatenated wall solid under the one final rescale.
C9_NoOpeningsNoSubtraction ==
    (pc = "export" /\ all_wall_meshes # << >> /\ all_opening_meshes = << >>) =>
        /\ ~Has(logs, "Subtracting")
        /\ final_model.solids =
              UNION { all_wall_meshes[i].solids : i \in 1..Len(all_wall_meshes) }
        /\ final_model.cuts = {}
        /\ final_model.watertight
        /\ final_model.num = 1
        /\ final_model.den = scale_factor

\* Doors were passed, none gave a mesh, and the walls came back whole.
C9_Witness ==
    /\ pc = "export"
    /\ all_wall_meshes # << >>
    /\ all_opening_meshes = << >>
    /\ door_polygons # << >>
    /\ final_model.solids # {}
    /\ final_model.cuts = {}

\* The request wrote its model file.
Exported == output_model_path \in DOMAIN models

\* C6: when wall polygons were found and not one wall mesh could be built,
\* the request ends in the failure "no valid wall meshes could be created":
\* it does not report success and it does not export the empty mesh.
C6_NoWallMeshesIsFailure ==
    (pc = "done" /\ wall_polygons # << >> /\ all_wall_meshes = << >>) =>
        /\ ~response.success
        /\ response.status_code = 400
        /\ response.message = "blueprint_could_not_be_processed"
        /\ ~Has(logs, "export")
        /\ ~Exported

\* The opening detector was run on a template that does not decode.
TemplateUnreadable ==
    \/ Has(logs, "find_features_door") /\ ~templates.door.readable
    \/ Has(logs, "find_features_window") /\ ~templates.window.readable

\* C7: a template that does not decode fails the request: its polygons are
\* not taken for zero matches, and the request neither exports a model nor
\* reports success.
C7_UnreadableTemplateIsFailure ==
    (pc = "done" /\ TemplateUnreadable) =>
        /\ ~response.success
        /\ ~Exported

\* The extraction has run on the saved upload.
Extracted == Has(logs, "Saved_file") /\ pc # "extract"

\* C8: when the upload cannot be read, or the extraction otherwise returns
\* no wall polygon, the request has failed and no later stage has run or
\* will: no template matching, no build_3d_model, no export.
C8_FailFastOnMissingWalls ==
    (Extracted /\ (~req.image.readable \/ wall_polygons = << >>)) =>
        /\ wall_polygons = << >>
        /\ pc = "done"
        /\ ~response.success
        /\ response.status_code = 400
        /\ response.message = "no_wall_features_detected"
        /\ ~Has(logs, "find_features_door")
        /\ ~Has(logs, "find_features_window")
        /\ ~Has(logs, "build_3d_model")
        /\ ~Has(logs, "export")
        /\ ~Exported

\* An upload that decoded ended without walls, because a cv2 call raised.
C8_Witness ==
    /\ Extracted
    /\ req.image.readable
    /\ wall_polygons = << >>
    /\ response.message = "no_wall_features_detected"

\* C10: no two requests write their model to the same output path.
C10_OutputPathsUnique ==
    \A i, j \in 1..Len(served) :
        (/\ i # j
         /\ served[i].response.success
         /\ served[j].response.success) =>
            served[i].output_model_path # served[j].output_model_path

Count(seq, tag) == Cardinality({ i \in 1..Len(seq) : seq[i] = tag })

\* The polygons of a list that are valid and not empty.
Usable(polys) == { i \in 1..Len(polys) : IsValid(polys[i]) /\ ~IsEmpty(polys[i]) }

\* The door meshes come first in all_opening_meshes: one for every usable
\* door polygon whose extrusion did not raise.
DoorMeshCount ==
    Cardinality(Usable(door_polygons)) - Count(logs, "Warning_could_not_extrude_door")

WindowMeshCount ==
    Cardinality(Usable(window_polygons)) - Count(logs, "Warning_could_not_extrude_window")

\* C11: build_3d_model returns a non-empty mesh exactly when at least one
\* wall polygon is valid, non-empty and extrudes without error.  A wall, door
\* or window polygon that is invalid, empty or raises is skipped alone: every
\* other polygon still gives its mesh, and the build goes on to return.
C11_PerUnitIsolation ==
    /\ pc \in { "openings", "subtract", "rescale", "export" } =>
          /\ Count(logs, "Warning_skipping_wall")
                = Len(wall_polygons) - Cardinality(Usable(wall_polygons))
          /\ Len(all_wall_meshes)
                = Cardinality(Usable(wall_polygons))
                  - Count(logs, "Warning_could_not_extrude_wall")
          /\ \A i \in 1..Len(all_wall_meshes) :
                \E k \in Usable(wall_polygons) :
                    all_wall_meshes[i].solids =
                        { Prism(wall_polygons[k].pts, 0, req.wall_height * scale_factor) }
    /\ (pc \in { "subtract", "rescale", "export" } /\ all_wall_meshes # << >>) =>
          /\ Count(logs, "Warning_skipping_door")
                = Len(door_polygons) - Cardinality(Usable(door_polygons))
          /\ Count(logs, "Warning_skipping_window")
                = Len(window_polygons) - Cardinality(Usable(window_polygons))
          /\ DoorMeshCount >= 0
          /\ WindowMeshCount >= 0
          /\ Len(all_opening_meshes) = DoorMeshCount + WindowMeshCount
    /\ pc = "export" =>
          (~MeshIsEmpty(final_model)
              <=> Cardinality(Usable(wall_polygons))
                    > Count(logs, "Warning_could_not_extrude_wall"))
    /\ (pc = "export" /\ all_wall_meshes # << >>) =>
          Has(logs, "Successfully_built_3D_model")

\* Of two valid wall polygons one raised in its extrusion, an empty window
\* polygon was skipped, and the model came back with the other wall and the
\* other window.
C11_Witness ==
    /\ pc = "export"
    /\ wall_polygons = << Loop, Box >>
    /\ window_polygons = << Nothing, Opening(9, 9) >>
    /\ Has(logs, "Warning_could_not_extrude_wall")
    /\ Has(logs, "Warning_skipping_window")
    /\ Len(all_wall_meshes) = 1
    /\ Len(all_opening_meshes) = 1
    /\ ~MeshIsEmpty(final_model)

\* C12: for every scale factor s a door cutting volume spans the heights
\* 0 to 2.1*s pixels and a window cutting volume 0.9*s to (0.9 + 1.2)*s; in
\* the returned model the cuts are 0 to 2.1 m and 0.9 to 2.1 m, whatever
\* wall_thickness_pixels is.
C12_OpeningHeights ==
    /\ (pc \in { "subtract", "rescale", "export" } /\ all_wall_meshes # << >>) =>
          \A i \in 1..Len(all_opening_meshes) :
              \A c \in all_opening_meshes[i].solids :
                  IF i <= DoorMeshCount
                  THEN c.z0 = 0 /\ c.z1 = 21 * scale_factor
                  ELSE c.z0 = 9 * scale_factor /\ c.z1 = (9 + 12) * scale_factor
    /\ pc = "export" =>
          /\ \A c \in final_model.cuts :
                \/ c.z0 * final_model.num = 0
                   /\ c.z1 * final_model.num = 21 * final_model.den
                \/ c.z0 * final_model.num = 9 * final_model.den
                   /\ c.z1 * final_model.num = 21 * final_model.den
          /\ (final_model.cuts # {} /\ DoorMeshCount = 0) =>
                \A c \in final_model.cuts : c.z0 * final_model.num = 9 * final_model.den
          /\ (final_model.cuts # {} /\ WindowMeshCount = 0) =>
                \A c \in final_model.cuts : c.z0 = 0

\* At 25 pixels per metre a door and a window were cut out of the walls:
\* the door from 0 to 52.5 pixels, the window from 22.5 to 52.5.
C12_Witness ==
    /\ pc = "export"
    /\ scale_factor = 25
    /\ final_model.den = 25
    /\ DoorMeshCount = 1 /\ WindowMeshCount = 1
    /\ \E c \in final_model.cuts : c.z0 = 0 /\ c.z1 = 525
    /\ \E c \in final_model.cuts : c.z0 = 225 /\ c.z1 = 525

====
